---------------------------- MODULE Spec2Model ----------------------------
(***************************************************************************)
(* A model of the videos.json rebuild (src/src/fetch_videos.py) and of the *)
(* HLTV team lookup (src/src/hltv_helpers.py).                             *)
(*                                                                         *)
(* Python strings are sequences of one-character strings, so that          *)
(* str.lower(), the TOKEN regular expression, the substring test and the   *)
(* ISO-8601 duration parser are computed character by character.  None and *)
(* the empty string are both the empty sequence: every test the code makes *)
(* on such a value is a truthiness test.                                   *)
(***************************************************************************)
EXTENDS Integers, Sequences, FiniteSets, TLC

None == <<>>

(***************************************************************************)
(* Characters                                                              *)
(***************************************************************************)
UpperCase == <<"A","B","C","D","E","F","G","H","I","J","K","L","M",
               "N","O","P","Q","R","S","T","U","V","W","X","Y","Z">>
LowerCase == <<"a","b","c","d","e","f","g","h","i","j","k","l","m",
               "n","o","p","q","r","s","t","u","v","w","x","y","z">>
Digits    == <<"0","1","2","3","4","5","6","7","8","9">>

Range(s) == {s[i] : i \in DOMAIN s}

IndexOf(c, s) == CHOOSE i \in DOMAIN s : s[i] = c

\* str.lower() on one character (ASCII letters; every other character is kept)
lower_char(c) ==
    IF c \in Range(UpperCase) THEN LowerCase[IndexOf(c, UpperCase)] ELSE c

\* str.lower()
lower(s) == [i \in DOMAIN s |-> lower_char(s[i])]

\* Python's `sub in s` on strings
contains(sub, s) ==
    \E i \in 1..(Len(s) - Len(sub) + 1) : SubSeq(s, i, i + Len(sub) - 1) = sub

\* str.startswith
startswith(s, prefix) ==
    Len(s) >= Len(prefix) /\ SubSeq(s, 1, Len(prefix)) = prefix

(***************************************************************************)
(* Config (fetch_videos.py, lines 21-40)                                   *)
(***************************************************************************)
CHANNELS == <<
    [label |-> "lim",
     raw |-> <<"@","l","i","m","-","c","s","g","o","p","o","v">>],
    [label |-> "pov_highlights",
     raw |-> <<"@","C","S","G","O","P","O","V","D","e","m","o","s",
               "H","i","g","h","l","i","g","h","t","s">>],
    [label |-> "nebula",
     raw |-> <<"@","N","e","b","u","l","a","C","S","2">> ] >>

HORIZON_DAYS == 18 * 30
MIN_VIDEOS   == 10
SHORTS_MAXS  == 60

mirage   == <<"m","i","r","a","g","e">>
inferno  == <<"i","n","f","e","r","n","o">>
nuke     == <<"n","u","k","e">>
ancient  == <<"a","n","c","i","e","n","t">>
anubis   == <<"a","n","u","b","i","s">>
vertigo  == <<"v","e","r","t","i","g","o">>
overpass == <<"o","v","e","r","p","a","s","s">>
dust2    == <<"d","u","s","t","2">>

MAPS == {mirage, inferno, nuke, ancient, anubis, vertigo, overpass, dust2}

BLACKLIST == MAPS \cup {
    <<"f","a","c","e","i","t">>, <<"p","o","v">>, <<"d","e","m","o">>,
    <<"h","i","g","h","l","i","g","h","t","s">>,
    <<"h","i","g","h","l","i","g","h","t">>,
    <<"r","a","n","k","e","d">>, <<"c","s","2">>, <<"v","s">>,
    <<"c","l","u","t","c","h">> }

\* TOKEN = re.compile(r"[A-Za-z0-9_\-]{3,16}")
TOKEN_CLASS == Range(UpperCase) \cup Range(LowerCase) \cup Range(Digits)
                 \cup {"_", "-"}
TOKEN_MIN == 3
TOKEN_MAX == 16

SHORTS_TAG == <<"#","s","h","o","r","t","s">>

(***************************************************************************)
(* TOKEN.findall(title): the non-overlapping matches, scanning from the    *)
(* left.  At a position the greedy {3,16} takes as many class characters   *)
(* as there are, at most 16; fewer than 3 is no match and the scan moves   *)
(* one character on.                                                       *)
(***************************************************************************)
RECURSIVE class_run(_, _)
class_run(s, i) ==
    IF i > Len(s) \/ s[i] \notin TOKEN_CLASS THEN 0 ELSE 1 + class_run(s, i + 1)

token_len(s, i) ==
    LET n == class_run(s, i) IN IF n > TOKEN_MAX THEN TOKEN_MAX ELSE n

RECURSIVE findall_from(_, _)
findall_from(s, i) ==
    IF i > Len(s) THEN <<>>
    ELSE LET n == token_len(s, i) IN
         IF n >= TOKEN_MIN
         THEN <<SubSeq(s, i, i + n - 1)>> \o findall_from(s, i + n)
         ELSE findall_from(s, i + 1)

TOKEN_findall(s) == findall_from(s, 1)

(***************************************************************************)
(* duration_to_seconds (lines 96-102):                                     *)
(* re.fullmatch(r"PT(?:(\d+)H)?(?:(\d+)M)?(?:(\d+)S)?", iso_dur or "")     *)
(***************************************************************************)
DURATION_UNITS == <<"H", "M", "S">>

RECURSIVE digit_run(_, _)
digit_run(s, i) ==
    IF i > Len(s) \/ s[i] \notin Range(Digits) THEN 0 ELSE 1 + digit_run(s, i + 1)

RECURSIVE int_of(_)
int_of(ds) ==
    IF ds = <<>> THEN 0
    ELSE 10 * int_of(SubSeq(ds, 1, Len(ds) - 1)) + (IndexOf(ds[Len(ds)], Digits) - 1)

\* The groups matched from position i on, when only the units from `stage`
\* on may still appear: a record h, mi, s, or None when there is no match.
RECURSIVE duration_groups(_, _, _, _)
duration_groups(s, i, stage, acc) ==
    IF i > Len(s) THEN acc
    ELSE LET n == digit_run(s, i) IN
         IF n = 0 \/ i + n > Len(s) THEN None
         ELSE LET u == s[i + n]
                  v == int_of(SubSeq(s, i, i + n - 1))
              IN  IF \E k \in stage..3 : DURATION_UNITS[k] = u
                  THEN LET k == IndexOf(u, DURATION_UNITS) IN
                       duration_groups(s, i + n + 1, k + 1,
                           [acc EXCEPT ![k] = v])
                  ELSE None

duration_to_seconds(iso_dur) ==
    LET m == IF startswith(iso_dur, <<"P","T">>)
             THEN duration_groups(iso_dur, 3, 1, <<0, 0, 0>>)
             ELSE None
    IN  IF m = None THEN 0
        ELSE m[1] * 3600 + m[2] * 60 + m[3]

\* fetch_durations (lines 104-113) for the response `resp` of videos().list:
\* a dict video id -> seconds; an id listed twice keeps its last duration.
RECURSIVE durations_of(_, _)
durations_of(items, out) ==
    IF items = <<>> THEN out
    ELSE LET it == Head(items) IN
         durations_of(Tail(items),
             [v \in DOMAIN out \cup {it.id} |->
                 IF v = it.id THEN duration_to_seconds(it.duration) ELSE out[v]])

fetch_durations(ids, resp) ==
    IF ids = <<>> THEN <<>> ELSE durations_of(resp.items, <<>>)

\* dict.get(key, default)
get(d, k, default) == IF k \in DOMAIN d THEN d[k] ELSE default

(***************************************************************************)
(* fetch_top_players (lines 43-68) for the response `resp` of the ranking  *)
(* API: the whitelist and the dict nick -> team; both empty when the       *)
(* request failed.                                                         *)
(***************************************************************************)
RECURSIVE add_players(_, _, _)
add_players(ranking, team_name, acc) ==
    IF ranking = <<>> THEN acc
    ELSE LET nick == Head(ranking) IN
         IF nick = None
         THEN add_players(Tail(ranking), team_name, acc)
         ELSE add_players(Tail(ranking), team_name,
                [whitelist |-> acc.whitelist \cup {nick},
                 nick_to_team |->
                    [n \in DOMAIN acc.nick_to_team \cup {nick} |->
                        IF n = nick THEN team_name ELSE acc.nick_to_team[n]]])

RECURSIVE add_teams(_, _)
add_teams(data, acc) ==
    IF data = <<>> THEN acc
    ELSE LET team == Head(data)
             team_name == IF team.teamName # None THEN team.teamName
                          ELSE IF team.name # None THEN team.name
                          ELSE <<"u","n","k","n","o","w","n">>
         IN  add_teams(Tail(data), add_players(team.ranking, team_name, acc))

fetch_top_players(resp) ==
    IF resp.error THEN [whitelist |-> {}, nick_to_team |-> <<>>]
    ELSE add_teams(resp.data, [whitelist |-> {}, nick_to_team |-> <<>>])

(***************************************************************************)
(* The body of the loop over a page's items (lines 137-167)                *)
(***************************************************************************)
\* pub.isoformat()[:10]: instants are hours, the date is the day
isoformat_date(pub) == pub \div 24

\* skipped, comparing the dates instead of the instants
skipped_by_date(it, cutoff, durs) ==
    \/ isoformat_date(it.publishedAt) < isoformat_date(cutoff)
    \/ contains(SHORTS_TAG, lower(it.title))
    \/ get(durs, it.videoId, 0) <= SHORTS_MAXS

\* lines 140 and 144: the item is skipped
skipped(it, cutoff, durs) ==
    \/ it.publishedAt < cutoff
    \/ contains(SHORTS_TAG, lower(it.title))
    \/ get(durs, it.videoId, 0) <= SHORTS_MAXS

\* is_nick without the blacklist
is_nick_no_blacklist(t, wl_lc) == lower(t) \in wl_lc

\* the condition of the generator of lines 148-149
is_nick(t, wl_lc) == lower(t) \in wl_lc /\ lower(t) \notin BLACKLIST

\* next((t for t in tokens if ...), None), lines 148-150
RECURSIVE first_nick(_, _)
first_nick(tokens, wl_lc) ==
    IF tokens = <<>> THEN None
    ELSE IF is_nick(Head(tokens), wl_lc) THEN Head(tokens)
    ELSE first_nick(Tail(tokens), wl_lc)

\* next((m for m in MAPS if m in lower), None), line 157; `iter` is the order
\* in which this process iterates over the set MAPS
RECURSIVE first_map(_, _)
first_map(iter, lower_title) ==
    IF iter = <<>> THEN None
    ELSE IF contains(Head(iter), lower_title) THEN Head(iter)
    ELSE first_map(Tail(iter), lower_title)

\* team = nick_to_team.get(nick) if nick else None, line 152
team_of(nick, n2t) == IF nick # None THEN get(n2t, nick, None) ELSE None

\* the dict appended to vids, lines 159-167
entry(it, label, wl_lc, n2t, iter) ==
    LET nick == first_nick(TOKEN_findall(it.title), wl_lc) IN
    [id        |-> it.videoId,
     title     |-> it.title,
     channel   |-> label,
     player    |-> nick,
     team      |-> team_of(nick, n2t),
     map       |-> first_map(iter, lower(it.title)),
     published |-> isoformat_date(it.publishedAt)]

\* counter[nick] += 1 when nick is set, lines 153-154
count(ctr, nick) ==
    IF nick = None THEN ctr
    ELSE [n \in DOMAIN ctr \cup {nick} |-> get(ctr, n, 0) + (IF n = nick THEN 1 ELSE 0)]

(***************************************************************************)
(* The gate and the sort (lines 169-175)                                   *)
(***************************************************************************)
\* keep_of, one short of the threshold
keep_of_off_by_one(ctr) == {p \in DOMAIN ctr : ctr[p] >= MIN_VIDEOS - 1}

keep_of(ctr) == {p \in DOMAIN ctr : ctr[p] >= MIN_VIDEOS}

\* gate_entry, hiding the team with the player
gate_entry_hard(v, keep) ==
    IF v.player # None /\ v.player \notin keep
    THEN [v EXCEPT !.player = None, !.team = None] ELSE v

gate_entry(v, keep) ==
    IF v.player # None /\ v.player \notin keep
    THEN [v EXCEPT !.player = None] ELSE v

gate(vs, keep) == [i \in DOMAIN vs |-> gate_entry(vs[i], keep)]

\* list.sort(key=published, reverse=True): stable, equal keys keep their order
RECURSIVE insert_desc(_, _)
insert_desc(sorted, v) ==
    IF sorted = <<>> THEN <<v>>
    ELSE IF Head(sorted).published >= v.published
         THEN <<Head(sorted)>> \o insert_desc(Tail(sorted), v)
         ELSE <<v>> \o sorted

RECURSIVE sort_desc(_)
sort_desc(vs) ==
    IF vs = <<>> THEN <<>>
    ELSE insert_desc(sort_desc(SubSeq(vs, 1, Len(vs) - 1)), vs[Len(vs)])

(***************************************************************************)
(* What the collaborators may answer.  Instants are hours; a run starts at *)
(* one of RunInstants.                                                     *)
(***************************************************************************)
NiKo   == <<"N","i","K","o">>
donk   == <<"d","o","n","k">>
Clutch == <<"C","l","u","t","c","h">>
TeamX  == <<"T","e","a","m","X">>
TeamY  == <<"T","e","a","m","Y">>

RunInstants == {600 * 24 + 6}

\* the ranking API: an error, two teams under different keys (one player
\* without a name, one whose nickname is a blacklisted word), a nameless team
RankingResponses == {
    [error |-> TRUE, data |-> <<>>],
    [error |-> FALSE, data |-> <<
        [teamName |-> TeamX, name |-> None, ranking |-> <<NiKo, None>>],
        [teamName |-> None, name |-> TeamY, ranking |-> <<donk, Clutch>>] >>],
    [error |-> FALSE, data |-> <<
        [teamName |-> None, name |-> None, ranking |-> <<NiKo>>] >>] }

Title_NiKoMirage == <<"N","i","K","o"," ","P","O","V"," ","M","i","r","a","g","e">>
Title_nikoDonk   == <<"n","i","k","o"," ","v","s"," ","d","o","n","k">>
Title_TwoMaps    == <<"p","o","v"," ","d","o","n","k"," ","I","n","f","e","r","n","o",
                      " ","N","u","k","e">>
Title_Shorts     == <<"N","i","K","o"," ","#","S","h","o","r","t","s">>
Title_Clutch     == <<"C","l","u","t","c","h"," ","N","i","K","o">>
Title_NoNick     == <<"x","y"," ","a","b","c","d","e","f","g","h","i","j","k","l","m",
                      "n","o","p","q","r">>
Title_donk       == <<"d","o","n","k"," ","d","e","m","o">>

PT2H3M  == <<"P","T","2","H","3","M">>
PT1M1S  == <<"P","T","1","M","1","S">>
PT10M5S == <<"P","T","1","0","M","0","5","S">>
PT1M    == <<"P","T","1","M">>
P1DT2H  == <<"P","1","D","T","2","H">>

\* An upload as the platform holds it: the playlist item's snippet and the
\* video's contentDetails.duration; hasDuration is FALSE when videos().list
\* answers without an item for the video.
Upload(id, title, pub, hasDuration, duration) ==
    [videoId |-> id, title |-> title, publishedAt |-> pub,
     hasDuration |-> hasDuration, duration |-> duration]

\* With a run at 600 * 24 + 6 the cutoff is hour 60 * 24 + 6 = 1446.
UploadPages == {
    << Upload(1, Title_NiKoMirage, 1470, TRUE, PT2H3M),
       Upload(2, Title_nikoDonk,   1446, TRUE, PT1M1S) >>,
    << Upload(3, Title_TwoMaps,    1500, TRUE, PT10M5S),
       Upload(4, Title_Shorts,     1500, TRUE, PT2H3M) >>,
    << Upload(5, Title_Clutch,     1445, TRUE, PT2H3M),
       Upload(6, Title_Clutch,     1470, TRUE, PT1M1S) >>,
    << Upload(7, Title_NiKoMirage, 1470, TRUE, PT1M),
       Upload(8, Title_NoNick,     1520, TRUE, PT2H3M) >>,
    << Upload(9, Title_NoNick,     1470, FALSE, None),
       Upload(1, Title_NiKoMirage, 1470, TRUE, PT2H3M) >>,
    << Upload(10, Title_NiKoMirage, 1494, TRUE, P1DT2H) >> }

\* Pages of distinct uploads, enough of them to reach MIN_VIDEOS for one
\* nickname: page k holds the ids 100 + 6k + 1, 100 + 6k + 2, ...
BulkPage(k, titles) ==
    [i \in 1..Len(titles) |->
        Upload(100 + 6 * k + i, titles[i], 1470 + 24 * k, TRUE, PT2H3M)]

BulkPages == {
    BulkPage(0, <<Title_NiKoMirage, Title_NiKoMirage, Title_NiKoMirage,
                  Title_NiKoMirage, Title_NiKoMirage, Title_NiKoMirage>>),
    BulkPage(1, <<Title_NiKoMirage, Title_donk, Title_NiKoMirage,
                  Title_NoNick, Title_NiKoMirage, Title_NiKoMirage>>),
    BulkPage(2, <<Title_NiKoMirage, Title_NiKoMirage, Title_donk,
                  Title_NiKoMirage>>) }

\* the order in which a process iterates over the set MAPS depends on its
\* string-hash seed; the two orders differ in which of inferno and nuke
\* comes first, the only two maps that share a title here
MapOrders == {
    <<mirage, inferno, nuke, ancient, anubis, vertigo, overpass, dust2>>,
    <<dust2, overpass, vertigo, anubis, ancient, nuke, inferno, mirage>> }

\* the playlist item the code reads: snippet.resourceId.videoId,
\* snippet.publishedAt (parsed by isoparse), snippet.title
Snippet(u) == [videoId |-> u.videoId, title |-> u.title, publishedAt |-> u.publishedAt]

Snippets(uploads) == [i \in DOMAIN uploads |-> Snippet(uploads[i])]

\* the videos().list answer for the uploads of a page: one item per video
\* that has a duration
VideosListResponse(uploads) ==
    LET have == SelectSeq(uploads, LAMBDA u : u.hasDuration) IN
    [items |-> [i \in DOMAIN have |->
                   [id |-> have[i].videoId, duration |-> have[i].duration]]]

\* search().list and channels().list answer with at most one item
ChannelIds == {None, <<"U","C","x">>}
UploadsIds == {None, <<"U","U","x">>}
HltvTeams  == {None, TeamX}
HltvNames  == {NiKo, donk}

MaxCalls   == 2
MaxLookups == 3

VARIABLES
    YT_KEY,        \* os.getenv("YT_API_KEY"), None when unset
    CUTOFF,        \* line 32, computed when the module is loaded
    MAPS_iter,     \* this process's iteration order of the set MAPS
    pc,            \* where the run is
    whitelist, nick_to_team, whitelist_lc,      \* lines 117-118
    ch,            \* position of the loop over CHANNELS.items(), line 123
    cid, upl,      \* lines 124, 128
    tok,           \* walk_pl_pages: whether a nextPageToken was returned
    page, durations, idx,                       \* lines 133-137
    vids, counter, \* line 121
    keep,          \* line 170
    videos_json,   \* what was written to docs/data/videos.json
    calls,         \* playlistItems().list requests made so far
    rerun_iter, rerun_vids, rerun_json,
                   \* a second run of the pipeline over the same answers, in a
                   \* process with its own iteration order of MAPS
    lookups, team  \* hltv_helpers: search_players requests per name, and
                   \* what get_team returned last

vars == <<YT_KEY, CUTOFF, MAPS_iter, pc, whitelist, nick_to_team, whitelist_lc,
          ch, cid, upl, tok, page, durations, idx, vids, counter, keep,
          videos_json, calls, rerun_iter, rerun_vids, rerun_json, lookups, team>>

env_vars   == <<YT_KEY, MAPS_iter, rerun_iter>>
hltv_vars  == <<lookups, team>>
wl_vars    == <<whitelist, nick_to_team, whitelist_lc>>
page_vars  == <<page, durations, idx>>
out_vars   == <<vids, counter, keep, videos_json, rerun_vids, rerun_json>>

Init ==
    /\ YT_KEY \in {None, <<"k","e","y">>}
    /\ MAPS_iter \in MapOrders
    /\ rerun_iter \in MapOrders
    /\ CUTOFF = 0
    /\ pc = "import"
    /\ whitelist = {} /\ nick_to_team = <<>> /\ whitelist_lc = {}
    /\ ch = 1 /\ cid = None /\ upl = None /\ tok = FALSE
    /\ page = <<>> /\ durations = <<>> /\ idx = 1
    /\ vids = <<>> /\ counter = <<>> /\ keep = {}
    /\ videos_json = <<>>
    /\ calls = 0
    /\ rerun_vids = <<>> /\ rerun_json = <<>>
    /\ lookups = [n \in HltvNames |-> 0] /\ team = None

(***************************************************************************)
(* Loading the module (lines 22-32)                                        *)
(***************************************************************************)
module_load ==
    /\ pc = "import"
    /\ IF YT_KEY = None
       THEN /\ pc' = "fatal"          \* RuntimeError("YT_API_KEY not set")
            /\ UNCHANGED CUTOFF
       ELSE /\ \E now \in RunInstants : CUTOFF' = now - HORIZON_DAYS * 24
            /\ pc' = "main"
    /\ UNCHANGED <<env_vars, hltv_vars, wl_vars, page_vars, out_vars,
                   ch, cid, upl, tok, calls>>

(***************************************************************************)
(* main(), lines 117-121                                                   *)
(***************************************************************************)
main_whitelist ==
    /\ pc = "main"
    /\ \E resp \in RankingResponses :
          LET r == fetch_top_players(resp) IN
          /\ whitelist' = r.whitelist
          /\ nick_to_team' = r.nick_to_team
          /\ whitelist_lc' = {lower(n) : n \in r.whitelist}
    /\ vids' = <<>> /\ counter' = <<>> /\ rerun_vids' = <<>>
    /\ ch' = 1
    /\ pc' = "chan_id"
    /\ UNCHANGED <<env_vars, hltv_vars, page_vars, CUTOFF, cid, upl, tok, calls,
                   keep, videos_json, rerun_json>>

\* the loop over CHANNELS moves on (`continue`, or the end of a walk)
next_channel ==
    IF ch < Len(CHANNELS)
    THEN ch' = ch + 1 /\ pc' = "chan_id"
    ELSE ch' = ch /\ pc' = "gate"

\* an exception no handler catches: the traceback ends the process
raise == pc' = "aborted" /\ ch' = ch

\* cid = chan_id(yt, raw), lines 124-127 and 71-76
main_chan_id ==
    /\ pc = "chan_id"
    /\ IF startswith(CHANNELS[ch].raw, <<"U","C">>)
       THEN cid' = CHANNELS[ch].raw /\ pc' = "uploads_pl" /\ ch' = ch
       ELSE \/ raise /\ UNCHANGED cid
            \/ \E c \in ChannelIds :
                  /\ cid' = c
                  /\ IF c = None THEN next_channel
                     ELSE pc' = "uploads_pl" /\ ch' = ch
    /\ UNCHANGED <<env_vars, hltv_vars, wl_vars, page_vars, out_vars,
                   CUTOFF, upl, tok, calls>>

\* upl = uploads_pl(yt, cid), lines 128-131 and 78-81
main_uploads_pl ==
    /\ pc = "uploads_pl"
    /\ \/ raise /\ UNCHANGED upl
       \/ \E u \in UploadsIds :
             /\ upl' = u
             /\ IF u = None THEN next_channel
                ELSE pc' = "walk_pl_pages" /\ ch' = ch
    /\ UNCHANGED <<env_vars, hltv_vars, wl_vars, page_vars, out_vars,
                   CUTOFF, cid, tok, calls>>

\* one round of the loop of walk_pl_pages (lines 83-93), up to its yield;
\* Pages are the non-empty pages the platform may answer with
walk_pl_pages(Pages) ==
    /\ pc = "walk_pl_pages"
    /\ \/ /\ calls < MaxCalls
          /\ raise
          /\ UNCHANGED <<tok, page, calls>>
       \/ \E uploads \in (IF calls < MaxCalls THEN Pages ELSE {}) \cup {<<>>},
             more \in (IF calls < MaxCalls THEN BOOLEAN ELSE {FALSE}) :
             /\ tok' = more
             /\ calls' = IF calls < MaxCalls THEN calls + 1 ELSE calls
             /\ IF uploads # <<>>
                THEN page' = Snippets(uploads) /\ pc' = "fetch_durations" /\ ch' = ch
                ELSE /\ UNCHANGED page
                     /\ IF more THEN pc' = "walk_pl_pages" /\ ch' = ch
                        ELSE next_channel
    /\ UNCHANGED <<env_vars, hltv_vars, wl_vars, out_vars,
                   CUTOFF, cid, upl, durations, idx>>

\* lines 134-135
main_fetch_durations(Pages) ==
    /\ pc = "fetch_durations"
    /\ \/ raise /\ UNCHANGED <<durations, idx>>
       \/ \E uploads \in Pages :
             /\ Snippets(uploads) = page
             /\ durations' = fetch_durations(
                    [i \in DOMAIN page |-> page[i].videoId],
                    VideosListResponse(uploads))
             /\ idx' = 1
             /\ pc' = "item" /\ ch' = ch
    /\ UNCHANGED <<env_vars, hltv_vars, wl_vars, out_vars,
                   CUTOFF, cid, upl, tok, page, calls>>

\* one round of the loop over the page, lines 137-167
main_item ==
    /\ pc = "item"
    /\ LET it == page[idx]
           label == CHANNELS[ch].label
           v == entry(it, label, whitelist_lc, nick_to_team, MAPS_iter)
       IN  IF skipped(it, CUTOFF, durations)
           THEN UNCHANGED <<vids, counter, rerun_vids>>
           ELSE /\ vids' = Append(vids, v)
                /\ counter' = count(counter, v.player)
                /\ rerun_vids' = Append(rerun_vids,
                       entry(it, label, whitelist_lc, nick_to_team, rerun_iter))
    /\ IF idx < Len(page)
       THEN idx' = idx + 1 /\ pc' = "item" /\ ch' = ch
       ELSE /\ idx' = idx
            /\ IF tok THEN pc' = "walk_pl_pages" /\ ch' = ch ELSE next_channel
    /\ UNCHANGED <<env_vars, hltv_vars, wl_vars, CUTOFF, cid, upl, tok, page,
                   durations, calls, keep, videos_json, rerun_json>>

\* lines 169-173
main_gate ==
    /\ pc = "gate"
    /\ keep' = keep_of(counter)
    /\ vids' = gate(vids, keep')
    /\ rerun_vids' = gate(rerun_vids, keep')
    /\ pc' = "sort"
    /\ UNCHANGED <<env_vars, hltv_vars, wl_vars, page_vars, CUTOFF, ch, cid,
                   upl, tok, calls, counter, videos_json, rerun_json>>

\* lines 175-180
main_write ==
    /\ pc = "sort"
    /\ vids' = sort_desc(vids)
    /\ rerun_vids' = sort_desc(rerun_vids)
    /\ videos_json' = vids'
    /\ rerun_json' = rerun_vids'
    /\ pc' = "done"
    /\ UNCHANGED <<env_vars, hltv_vars, wl_vars, page_vars, CUTOFF, ch, cid,
                   upl, tok, calls, counter, keep>>

(***************************************************************************)
(* hltv_helpers.get_team (lines 5-15): every call asks the service         *)
(***************************************************************************)
get_team(player_name) ==
    /\ lookups[player_name] < MaxLookups
    /\ lookups' = [lookups EXCEPT ![player_name] = @ + 1]
    /\ \/ \E t \in HltvTeams : team' = t     \* a match, or no match
       \/ team' = None                       \* search_players raised
    /\ UNCHANGED <<YT_KEY, CUTOFF, MAPS_iter, pc, whitelist, nick_to_team,
                   whitelist_lc, ch, cid, upl, tok, page, durations, idx, vids,
                   counter, keep, videos_json, calls, rerun_iter, rerun_vids,
                   rerun_json>>

Run(Pages) ==
    \/ module_load
    \/ main_whitelist
    \/ main_chan_id
    \/ main_uploads_pl
    \/ walk_pl_pages(Pages)
    \/ main_fetch_durations(Pages)
    \/ main_item
    \/ main_gate
    \/ main_write

Next == Run(UploadPages)

Spec == Init /\ [][Next]_vars

BulkNext == Run(BulkPages)

BulkSpec == Init /\ [][BulkNext]_vars

HltvNext == \E n \in HltvNames : get_team(n)

HltvSpec == Init /\ [][HltvNext]_vars

(***************************************************************************)
(* The claims.  What a title resolves to is stated here from the shape of  *)
(* a token and from the positions of the title, not from the scan above.   *)
(***************************************************************************)
same_letter(a, b) ==
    a = b \/ \E k \in DOMAIN UpperCase : {a, b} = {UpperCase[k], LowerCase[k]}

\* s and t are equal up to the case of their letters
ci_equal(s, t) ==
    Len(s) = Len(t) /\ \A k \in DOMAIN s : same_letter(s[k], t[k])

token_char(s, k) == s[k] \in TOKEN_CLASS

\* positions a..b are a run of token characters that cannot be extended
maximal_run(s, a, b) ==
    /\ a <= b
    /\ \A k \in a..b : token_char(s, k)
    /\ a = 1 \/ ~token_char(s, a - 1)
    /\ b = Len(s) \/ ~token_char(s, b + 1)

run_end(s, i) == CHOOSE b \in i..Len(s) : \E a \in 1..i : maximal_run(s, a, b)

\* a token starts at i: a run is cut into tokens of 16 characters from its
\* left end, and what is left at its right end is a token if it has 3 or more
token_starts(s) ==
    {i \in DOMAIN s :
        \E a \in 1..i, b \in i..Len(s) :
            maximal_run(s, a, b) /\ (i - a) % 16 = 0 /\ b - i + 1 >= 3}

token_at(s, i) ==
    LET b == run_end(s, i) IN SubSeq(s, i, IF b > i + 15 THEN i + 15 ELSE b)

qualifies(t, wl) ==
    /\ \E w \in wl : ci_equal(t, w)
    /\ ~ \E b \in BLACKLIST : ci_equal(t, b)

\* the leftmost token of the title that qualifies, None when there is none
leftmost(title, wl) ==
    LET Q == {i \in token_starts(title) : qualifies(token_at(title, i), wl)} IN
    IF Q = {} THEN None
    ELSE token_at(title, CHOOSE i \in Q : \A j \in Q : i <= j)

\* leftmost, tabulated once for the titles of the model and the whitelists
\* over the nicknames of the model
Titles ==
    UNION {{p[i].title : i \in DOMAIN p} : p \in UploadPages \cup BulkPages}

Whitelists == SUBSET {NiKo, donk, Clutch}

leftmost_table ==
    {<<t, wl, leftmost(t, wl)>> : t \in Titles, wl \in Whitelists}

resolves_to(title, wl) ==
    (CHOOSE r \in leftmost_table : r[1] = title /\ r[2] = wl)[3]

\* vids holds the entries as resolved, before the gate hides players
resolving == pc \notin {"sort", "done"}

\* C1: an entry whose title's leftmost qualifying token matches the
\* whitelist nickname w up to case has player w, in the whitelist's casing,
\* and w's team.
C1_CanonicalIdentity ==
    resolving =>
        \A k \in DOMAIN vids : \A w \in whitelist :
            ci_equal(resolves_to(vids[k].title, whitelist), w) =>
                vids[k].player = w /\ vids[k].team = nick_to_team[w]

\* C2: no video id appears in two entries of the written catalogue.
C2_UniqueIds ==
    pc = "done" =>
        \A i, j \in DOMAIN videos_json :
            i # j => videos_json[i].id # videos_json[j].id

\* C3: with the credential present no run ends before videos.json is
\* written: a failing external call never aborts the run.
C3_NeverAborts == YT_KEY # None => pc # "aborted"

\* the entries of the catalogue whose title resolves to the nickname p
resolved_to(p) ==
    {j \in DOMAIN videos_json : resolves_to(videos_json[j].title, whitelist) = p}

\* C4: a nickname that is the player of an entry of the written catalogue
\* is what at least MIN_VIDEOS of the catalogue's records resolve to, and a
\* nickname that fewer resolve to is the player of no entry.
C4_Threshold ==
    pc = "done" =>
        /\ \A i \in DOMAIN videos_json :
              videos_json[i].player # None =>
                  Cardinality(resolved_to(videos_json[i].player)) >= MIN_VIDEOS
        /\ \A j \in DOMAIN videos_json :
              LET p == resolves_to(videos_json[j].title, whitelist) IN
              (p # None /\ Cardinality(resolved_to(p)) < MIN_VIDEOS) =>
                  \A i \in DOMAIN videos_json : videos_json[i].player # p

\* a catalogue of distinct videos in which NiKo is shown and donk is hidden
C4_Witness ==
    /\ pc = "done"
    /\ \A i, j \in DOMAIN videos_json :
          i # j => videos_json[i].id # videos_json[j].id
    /\ \E i \in DOMAIN videos_json : videos_json[i].player = NiKo
    /\ \E j \in DOMAIN videos_json :
          /\ videos_json[j].player = None
          /\ resolves_to(videos_json[j].title, whitelist) = donk

\* C5: a second run over the same answers writes the same catalogue.
C5_Deterministic == pc = "done" => rerun_json = videos_json

\* C6: the player of an entry, as resolved, is the leftmost token of its
\* title that matches a whitelist nickname up to case and is not
\* blacklisted, and None when no token qualifies.
C6_LeftmostToken ==
    resolving =>
        \A k \in DOMAIN vids :
            vids[k].player = resolves_to(vids[k].title, whitelist)

\* a blacklisted first token was passed over, and a title resolved to None
C6_Witness ==
    /\ resolving
    /\ \E k \in DOMAIN vids :
          /\ vids[k].player # None
          /\ ~startswith(vids[k].title, vids[k].player)
          /\ \E w \in whitelist : startswith(vids[k].title, w)
    /\ \E k \in DOMAIN vids :
          vids[k].player = None /\ token_starts(vids[k].title) # {}

\* C7: an item published before the cutoff leaves vids and counter as they
\* were; an entry is appended, and a nickname counted, only for an item
\* published at or after the cutoff, with that item's id and date; and no
\* entry of the written catalogue is dated before the cutoff's day.
C7_Window ==
    [][ /\ pc = "item" =>
             LET it == page[idx] IN
             /\ it.publishedAt < CUTOFF => vids' = vids /\ counter' = counter
             /\ vids' # vids =>
                   /\ it.publishedAt >= CUTOFF
                   /\ Len(vids') = Len(vids) + 1
                   /\ SubSeq(vids', 1, Len(vids)) = vids
                   /\ vids'[Len(vids')].id = it.videoId
                   /\ vids'[Len(vids')].published = it.publishedAt \div 24
             /\ counter' # counter => it.publishedAt >= CUTOFF
        /\ pc # "item" => Len(vids') = Len(vids) \/ vids' = <<>>
        /\ pc' = "done" =>
             \A i \in DOMAIN videos_json' :
                 videos_json'[i].published >= CUTOFF \div 24
      ]_vars

\* a catalogue was written after a page with an item older than the cutoff,
\* and holds no entry for that item
C7_Witness ==
    /\ pc = "done"
    /\ videos_json # <<>>
    /\ \E i \in DOMAIN page :
          /\ page[i].publishedAt < CUTOFF
          /\ \A k \in DOMAIN videos_json : videos_json[k].id # page[i].videoId

\* C8: the gate keeps every entry in place and changes only the player, to
\* None, of the entries whose player has fewer than MIN_VIDEOS entries;
\* every other entry, and every other field, is as before.
C8_GateFrame ==
    [][ pc = "gate" =>
          /\ Len(vids') = Len(vids)
          /\ counter' = counter
          /\ \A i \in DOMAIN vids :
                LET v == vids[i]
                    occ == Cardinality({j \in DOMAIN vids :
                                           vids[j].player = v.player})
                IN  vids'[i] = IF v.player # None /\ occ < MIN_VIDEOS
                               THEN [v EXCEPT !.player = None]
                               ELSE v
      ]_vars

\* after the gate: a hidden player whose team is kept, a shown player, and
\* an entry that never had a player
C8_Witness ==
    /\ pc = "sort"
    /\ \E i \in DOMAIN vids : vids[i].player = None /\ vids[i].team # None
    /\ \E i \in DOMAIN vids : vids[i].player # None
    /\ \E i \in DOMAIN vids :
          /\ vids[i].team = None
          /\ resolves_to(vids[i].title, whitelist) = None

\* C9: no player name is looked up on the network more than once in a run.
C9_OneLookupPerName == \A n \in HltvNames : lookups[n] <= 1

\* C10: an item is left out only if it was published before the cutoff, its
\* title holds "#shorts" in any case, or its duration is known and at most
\* SHORTS_MAXS seconds; every other item appends an entry.
C10_OnlyShortsAndOldDropped ==
    [][ pc = "item" =>
          LET it == page[idx] IN
          \/ it.publishedAt < CUTOFF
          \/ \E i \in DOMAIN it.title :
                /\ i + 6 <= Len(it.title)
                /\ ci_equal(SubSeq(it.title, i, i + 6), SHORTS_TAG)
          \/ /\ it.videoId \in DOMAIN durations
             /\ durations[it.videoId] <= SHORTS_MAXS
          \/ /\ Len(vids') = Len(vids) + 1
             /\ vids'[Len(vids')].id = it.videoId
      ]_vars
=============================================================================
